---------------------------- MODULE Spec2Model ----------------------------
(***************************************************************************)
(* Model of three view-controllers of element-web:                         *)
(*   RecoveryPanel          (settings/encryption/RecoveryPanel.tsx)        *)
(*   ChangeRecoveryKey      (settings/encryption/ChangeRecoveryKey.tsx)    *)
(*   VoiceRecordComposerTile (rooms/VoiceRecordComposerTile.tsx)           *)
(* Every asynchronous handler is cut at its awaits: one action per         *)
(* synchronous segment.  External collaborators (crypto, secret storage,   *)
(* recorder, store, browser) answer nondeterministically.                  *)
(***************************************************************************)
EXTENDS Naturals, Integers, Sequences, FiniteSets, TLC

VARIABLES
    \* ---- RecoveryPanel ----
    rpState,        \* useState<State>: the panel state
    rpMounted,      \* whether the mount effect (useEffect) has run
    rpChecks,       \* the checkEncryption invocations, in start order
    rpAccess,       \* accessSecretStorage calls in flight
    rpCrypto,       \* environment: matrixClient.getCrypto() answers an object
    rpBackup,       \* environment: a session backup private key exists
    rpCached,       \* environment: privateKeysCachedLocally
    rpLast,         \* history: what the check that completed last observed
    rpSetUpCalls,   \* history: invocations of onSetUpRecoveryClick
    rpChangeCalls   \* history: invocations of onChangingRecoveryKeyClick

rpVars == <<rpState, rpMounted, rpChecks, rpAccess, rpCrypto, rpBackup, rpCached,
            rpLast, rpSetUpCalls, rpChangeCalls>>

VARIABLES
    \* ---- ChangeRecoveryKey ----
    isSetupFlow,    \* prop
    crkMounted,     \* the component is in the view tree
    crkState,       \* useState<State>: the wizard state
    crkKeyPc,       \* useAsyncMemo: "init", "pending", "resolved" or "rejected"
    crkKey,         \* useAsyncMemo value: the recovery key (NoKey: undefined)
    crkNextKey,     \* environment: keys the crypto collaborator has generated
    crkCrypto,      \* environment: matrixClient.getCrypto() answers an object
    crkText,        \* content of the recoveryKey text control
    crkIsKeyValid,  \* KeyForm useState<boolean>(): "undefined", "true", "false"
    crkSubmits,     \* the onSubmit invocations, in start order
    crkCacheEnabled,\* SecurityManager: the secret storage key cache is enabled
    crkFinishCalls, \* history: invocations of onFinish
    crkCancelCalls, \* history: invocations of onCancelClick
    crkCreateCalls, \* history: calls of createRecoveryKeyFromPassphrase
    crkCryptoAtMount, \* history: getCrypto() answered an object in the memo
    crkHistory,     \* history: the wizard states, in order
    crkContinueClicks, \* history: clicks on a continue button
    crkShown,       \* history: ids of the keys KeyPanel displayed
    crkCompared     \* history: ids of the keys KeyForm compared the input with

crkVars == <<isSetupFlow, crkMounted, crkState, crkKeyPc, crkKey, crkNextKey, crkCrypto,
             crkText, crkIsKeyValid, crkSubmits, crkCacheEnabled, crkFinishCalls,
             crkCancelCalls, crkCreateCalls, crkCryptoAtMount, crkHistory, crkContinueClicks,
             crkShown, crkCompared>>

VARIABLES
    \* ---- VoiceRecordComposerTile ----
    vrMounted,      \* the component is in the view tree
    vrRecorder,     \* state.recorder: 0 (null) or the recorder's id
    vrPhase,        \* state.recordingPhase: "none" (unset) or a RecordingState
    vrRelHeights,   \* state.relHeights
    vrSeconds,      \* state.seconds
    vrWaveform,     \* this.waveform
    vrSecondsField, \* this.seconds
    vrScheduled,    \* this.scheduledAnimationFrame
    vrRaf,          \* browser: animation-frame callbacks requested and not yet run
    vrTasks,        \* the invocations of the async handlers, in start order
    vsCurrent,      \* VoiceRecordingStore: the current recording, 0 for none
    vrRecs,         \* the recorders the store created, by id
    vrSent,         \* history: the sendMessage calls
    vrUpdates,      \* history: recorder updates delivered
    vrLastUpdate,   \* history: the update delivered last
    vrFrame         \* history: what the last animation frame flushed

vrVars == <<vrMounted, vrRecorder, vrPhase, vrRelHeights, vrSeconds, vrWaveform,
            vrSecondsField, vrScheduled, vrRaf, vrTasks, vsCurrent, vrRecs,
            vrSent, vrUpdates, vrLastUpdate, vrFrame>>

vars == <<rpVars, crkVars, vrVars>>

\* what an action of one component leaves alone
rpOthers == <<crkVars, vrVars>>
crkOthers == <<rpVars, vrVars>>
vrOthers == <<rpVars, crkVars>>

-----------------------------------------------------------------------------
(* Bounds *)

\* checkEncryption invocations per panel
MaxChecks == 3
\* clicks counted per callback
MaxClicks == 2
\* length of the text in the recovery key text control
MaxText == 3
\* submits of the confirm form per activation
MaxSubmits == 2
\* invocations of the composer's async handlers (record click, send, cancel)
MaxTasks == 2
\* recorder updates delivered
MaxUpdates == 2

-----------------------------------------------------------------------------
(***************************  RecoveryPanel  *******************************)

RPStates == {"loading", "missing_backup", "secrets_not_cached", "good"}

Secrets == {"masterKey", "selfSigningKey", "userSigningKey"}

NoObservation == [id |-> 0, hasBackup |-> FALSE, cached |-> [s \in Secrets |-> FALSE],
                  sawStatus |-> FALSE]

\* (mutant of secretsOk: the user signing key is not looked at)
secretsOkWithoutUserSigning(cachedSecrets) ==
    cachedSecrets["masterKey"] /\ cachedSecrets["selfSigningKey"]

\* const secretsOk = cachedSecrets.masterKey && cachedSecrets.selfSigningKey
\*                   && cachedSecrets.userSigningKey
secretsOk(cachedSecrets) ==
    cachedSecrets["masterKey"] /\ cachedSecrets["selfSigningKey"]
        /\ cachedSecrets["userSigningKey"]

\* (mutant of ActionOffered: the set-up button is there while loading, too)
ActionOfferedWhileLoading(state) ==
    CASE state = "loading" -> "set_up_recovery"
      [] state = "missing_backup" -> "set_up_recovery"
      [] state = "secrets_not_cached" -> "enter_recovery_key"
      [] OTHER -> "change_recovery_key"

\* (mutant of ActionOffered: the buttons of missing_backup and good are swapped)
ActionOfferedSwapped(state) ==
    CASE state = "loading" -> "none"
      [] state = "missing_backup" -> "change_recovery_key"
      [] state = "secrets_not_cached" -> "enter_recovery_key"
      [] OTHER -> "set_up_recovery"

\* switch (state): the content rendered, a spinner or the one button
ActionOffered(state) ==
    CASE state = "loading" -> "none"
      [] state = "missing_backup" -> "set_up_recovery"
      [] state = "secrets_not_cached" -> "enter_recovery_key"
      [] OTHER -> "change_recovery_key"

\* (mutant of checkEncryptionStart: the check goes on without crypto)
checkEncryptionStartUnguarded(checks) ==
    Append(checks, [pc |-> "awaitBackup", set |-> "none"])

\* checkEncryption up to its first await: getCrypto(), then either the early
\* return or the call of getSessionBackupPrivateKey
checkEncryptionStart(checks) ==
    Append(checks, IF ~rpCrypto THEN [pc |-> "returned", set |-> "none"]
                   ELSE [pc |-> "awaitBackup", set |-> "none"])

RPInit ==
    /\ rpState = "loading"
    /\ rpMounted = FALSE
    /\ rpChecks = <<>>
    /\ rpAccess = 0
    /\ rpCrypto \in BOOLEAN
    /\ rpBackup \in BOOLEAN
    /\ rpCached \in [Secrets -> BOOLEAN]
    /\ rpLast = NoObservation
    /\ rpSetUpCalls = 0
    /\ rpChangeCalls = 0

\* useEffect(() => { checkEncryption(); }, [checkEncryption])
RPMountEffect ==
    /\ ~rpMounted
    /\ rpMounted' = TRUE
    /\ rpChecks' = checkEncryptionStart(rpChecks)
    /\ UNCHANGED <<rpState, rpAccess, rpCrypto, rpBackup, rpCached, rpLast,
                   rpSetUpCalls, rpChangeCalls>>
    /\ UNCHANGED rpOthers

\* (mutant of RPBackupResolves: the cross signing status is asked for
\* whatever the backup check found)
RPBackupResolvesStatusAnyway(i) ==
    /\ rpChecks[i].pc = "awaitBackup"
    /\ rpChecks' = [rpChecks EXCEPT ![i].pc = "awaitStatus"]
    /\ UNCHANGED <<rpState, rpLast>>
    /\ UNCHANGED <<rpMounted, rpAccess, rpCrypto, rpBackup, rpCached,
                   rpSetUpCalls, rpChangeCalls>>
    /\ UNCHANGED rpOthers

\* await crypto.getSessionBackupPrivateKey() resolves: no key sets
\* missing_backup and returns, a key goes on to getCrossSigningStatus
RPBackupResolves(i) ==
    /\ rpChecks[i].pc = "awaitBackup"
    /\ LET hasBackup == rpBackup
       IN IF ~hasBackup
          THEN /\ rpState' = "missing_backup"
               /\ rpChecks' = [rpChecks EXCEPT ![i] = [pc |-> "done", set |-> "missing_backup"]]
               /\ rpLast' = [id |-> i, hasBackup |-> FALSE,
                             cached |-> [s \in Secrets |-> FALSE], sawStatus |-> FALSE]
          ELSE /\ rpChecks' = [rpChecks EXCEPT ![i].pc = "awaitStatus"]
               /\ UNCHANGED <<rpState, rpLast>>
    /\ UNCHANGED <<rpMounted, rpAccess, rpCrypto, rpBackup, rpCached,
                   rpSetUpCalls, rpChangeCalls>>
    /\ UNCHANGED rpOthers

\* await crypto.getCrossSigningStatus() resolves
RPStatusResolves(i) ==
    /\ rpChecks[i].pc = "awaitStatus"
    /\ LET cachedSecrets == rpCached
           next == IF ~secretsOk(cachedSecrets) THEN "secrets_not_cached" ELSE "good"
       IN /\ rpState' = next
          /\ rpChecks' = [rpChecks EXCEPT ![i] = [pc |-> "done", set |-> next]]
          /\ rpLast' = [id |-> i, hasBackup |-> TRUE, cached |-> cachedSecrets,
                        sawStatus |-> TRUE]
    /\ UNCHANGED <<rpMounted, rpAccess, rpCrypto, rpBackup, rpCached,
                   rpSetUpCalls, rpChangeCalls>>
    /\ UNCHANGED rpOthers

\* either awaited call rejects: checkEncryption has no try/catch, the
\* invocation ends without a setState
RPCallRejects(i) ==
    /\ rpChecks[i].pc \in {"awaitBackup", "awaitStatus"}
    /\ rpChecks' = [rpChecks EXCEPT ![i].pc = "threw"]
    /\ UNCHANGED <<rpState, rpMounted, rpAccess, rpCrypto, rpBackup, rpCached, rpLast,
                   rpSetUpCalls, rpChangeCalls>>
    /\ UNCHANGED rpOthers

\* case "missing_backup": <Button onClick={onSetUpRecoveryClick}>
RPClickSetUp ==
    /\ ActionOffered(rpState) = "set_up_recovery"
    /\ rpSetUpCalls < MaxClicks
    /\ rpSetUpCalls' = rpSetUpCalls + 1
    /\ UNCHANGED <<rpState, rpMounted, rpChecks, rpAccess, rpCrypto, rpBackup, rpCached,
                   rpLast, rpChangeCalls>>
    /\ UNCHANGED rpOthers

\* (mutant of RPClickEnterKey: checkEncryption is called at the click, not
\* handed over)
RPClickEnterKeyChecksAtOnce ==
    /\ ActionOffered(rpState) = "enter_recovery_key"
    /\ Len(rpChecks) + rpAccess < MaxChecks
    /\ rpAccess' = rpAccess + 1
    /\ rpChecks' = checkEncryptionStart(rpChecks)
    /\ UNCHANGED <<rpState, rpMounted, rpCrypto, rpBackup, rpCached, rpLast,
                   rpSetUpCalls, rpChangeCalls>>
    /\ UNCHANGED rpOthers

\* case "secrets_not_cached":
\*   onClick={async () => await accessSecretStorage(checkEncryption)}
RPClickEnterKey ==
    /\ ActionOffered(rpState) = "enter_recovery_key"
    /\ Len(rpChecks) + rpAccess < MaxChecks
    /\ rpAccess' = rpAccess + 1
    /\ UNCHANGED <<rpState, rpMounted, rpChecks, rpCrypto, rpBackup, rpCached, rpLast,
                   rpSetUpCalls, rpChangeCalls>>
    /\ UNCHANGED rpOthers

\* accessSecretStorage unlocked the secret storage (the secrets it could
\* fetch are now cached) and invokes the function it was given
accessSecretStorageSucceeds ==
    /\ rpAccess > 0
    /\ rpAccess' = rpAccess - 1
    /\ \E c \in [Secrets -> BOOLEAN] :
          /\ \A s \in Secrets : rpCached[s] => c[s]
          /\ rpCached' = c
    /\ rpChecks' = checkEncryptionStart(rpChecks)
    /\ UNCHANGED <<rpState, rpMounted, rpCrypto, rpBackup, rpLast,
                   rpSetUpCalls, rpChangeCalls>>
    /\ UNCHANGED rpOthers

\* accessSecretStorage fails or is cancelled: the function is not invoked
accessSecretStorageFails ==
    /\ rpAccess > 0
    /\ rpAccess' = rpAccess - 1
    /\ UNCHANGED <<rpState, rpMounted, rpChecks, rpCrypto, rpBackup, rpCached, rpLast,
                   rpSetUpCalls, rpChangeCalls>>
    /\ UNCHANGED rpOthers

\* default: <Button onClick={onChangingRecoveryKeyClick}>
RPClickChange ==
    /\ ActionOffered(rpState) = "change_recovery_key"
    /\ rpChangeCalls < MaxClicks
    /\ rpChangeCalls' = rpChangeCalls + 1
    /\ UNCHANGED <<rpState, rpMounted, rpChecks, rpAccess, rpCrypto, rpBackup, rpCached,
                   rpLast, rpSetUpCalls>>
    /\ UNCHANGED rpOthers

\* the account's backup and secret cache change outside the panel
RPEnvChange ==
    /\ \E b \in BOOLEAN, c \in [Secrets -> BOOLEAN], g \in BOOLEAN :
          /\ <<b, c, g>> # <<rpBackup, rpCached, rpCrypto>>
          /\ rpBackup' = b
          /\ rpCached' = c
          /\ rpCrypto' = g
    /\ UNCHANGED <<rpState, rpMounted, rpChecks, rpAccess, rpLast,
                   rpSetUpCalls, rpChangeCalls>>
    /\ UNCHANGED rpOthers

RPNext ==
    \/ RPMountEffect
    \/ \E i \in 1..Len(rpChecks) : RPBackupResolves(i)
    \/ \E i \in 1..Len(rpChecks) : RPStatusResolves(i)
    \/ \E i \in 1..Len(rpChecks) : RPCallRejects(i)
    \/ RPClickSetUp
    \/ RPClickEnterKey
    \/ accessSecretStorageSucceeds
    \/ accessSecretStorageFails
    \/ RPClickChange
    \/ RPEnvChange

-----------------------------------------------------------------------------
(*************************  ChangeRecoveryKey  *****************************)

CRKStates == {"inform_user", "save_key_setup_flow", "save_key_change_flow", "confirm"}

\* characters of the text control: a non-blank one and a white space
Chars == {"a", " "}

\* what the user can have in the text control
Texts == UNION {[1..n -> Chars] : n \in 0..MaxText}

\* encodedPrivateKey strings the crypto collaborator may hand out: none, a
\* plain one, one with an inner blank, one with a leading blank
KeyStrings == {<<>>, <<"a">>, <<"a", " ", "a">>, <<" ", "a">>}

\* recoveryKey is undefined
NoKey == [id |-> 0, encodedPrivateKey |-> <<>>]

\* String.prototype.trim, as used in filledKey.trim()
RECURSIVE trimStart(_)
trimStart(s) == IF s # <<>> /\ Head(s) = " " THEN trimStart(Tail(s)) ELSE s

RECURSIVE trimEnd(_)
trimEnd(s) == IF s # <<>> /\ s[Len(s)] = " " THEN trimEnd(SubSeq(s, 1, Len(s) - 1)) ELSE s

trim(s) == trimEnd(trimStart(s))

\* (mutant of InitialState: the two flows are swapped)
InitialStateSwapped(setup) == IF setup THEN "save_key_change_flow" ELSE "inform_user"

\* useState<State>(isSetupFlow ? "inform_user" : "save_key_change_flow")
InitialState(setup) == IF setup THEN "inform_user" ELSE "save_key_change_flow"

\* if (!recoveryKey?.encodedPrivateKey) return null;  otherwise the card with
\* the breadcrumb and the panel of the current state is rendered
Rendered == crkMounted /\ crkKey.encodedPrivateKey # <<>>

\* <Button disabled={!isKeyValid}>: the finish control accepts a click
FinishEnabled == crkIsKeyValid = "true"

\* (mutant of KeyMatches: the input is compared as typed)
KeyMatchesUntrimmed(filledKey, recoveryKey) == filledKey = recoveryKey

\* setIsKeyValid(filledKey.trim() === recoveryKey)
KeyMatches(filledKey, recoveryKey) == trim(filledKey) = recoveryKey

\* (mutant of createSecretStorageKey: a key is generated anew for the commit)
createSecretStorageKeyAnew == [id |-> crkNextKey, encodedPrivateKey |-> crkKey.encodedPrivateKey]

\* createSecretStorageKey: async () => recoveryKey
createSecretStorageKey == crkKey

\* the ids of the keys shown by the render of state st with key k
ShownBy(st, k) ==
    IF st \in {"save_key_setup_flow", "save_key_change_flow"} /\ k.encodedPrivateKey # <<>>
    THEN {k.id} ELSE {}

CRKInit ==
    /\ isSetupFlow \in BOOLEAN
    /\ crkMounted = TRUE
    /\ crkState = InitialState(isSetupFlow)
    /\ crkKeyPc = "init"
    /\ crkKey = NoKey
    /\ crkNextKey = 1
    /\ crkCrypto \in BOOLEAN
    /\ crkText = <<>>
    /\ crkIsKeyValid = "undefined"
    /\ crkSubmits = <<>>
    /\ crkCacheEnabled = FALSE
    /\ crkFinishCalls = 0
    /\ crkCancelCalls = 0
    /\ crkCreateCalls = 0
    /\ crkCryptoAtMount = FALSE
    /\ crkHistory = <<InitialState(isSetupFlow)>>
    /\ crkContinueClicks = 0
    /\ crkShown = {}
    /\ crkCompared = {}

\* hooks/useAsyncMemo with the dependencies []: the function is run once per
\* activation, by the effect that follows the first render
useAsyncMemoDue == crkMounted /\ crkKeyPc = "init"

\* the function given to useAsyncMemo: no crypto resolves undefined, else the
\* key is requested
CRKMemoEffect ==
    /\ useAsyncMemoDue
    /\ crkKeyPc' = "pending"
    /\ crkCryptoAtMount' = crkCrypto
    /\ crkCreateCalls' = IF crkCrypto THEN crkCreateCalls + 1 ELSE crkCreateCalls
    /\ UNCHANGED crkContinueClicks
    /\ UNCHANGED <<isSetupFlow, crkMounted, crkState, crkKey, crkNextKey, crkCrypto, crkText,
                   crkIsKeyValid, crkSubmits, crkCacheEnabled, crkFinishCalls,
                   crkCancelCalls, crkHistory, crkShown, crkCompared>>
    /\ UNCHANGED crkOthers

\* the promise of the memo resolves and the hook stores its value:
\* undefined without crypto, else a key the collaborator generated afresh
CRKMemoResolves ==
    /\ crkKeyPc = "pending"
    /\ crkKeyPc' = "resolved"
    /\ IF crkCryptoAtMount
       THEN \E k \in KeyStrings :
               /\ crkKey' = [id |-> crkNextKey, encodedPrivateKey |-> k]
               /\ crkNextKey' = crkNextKey + 1
       ELSE UNCHANGED <<crkKey, crkNextKey>>
    /\ crkShown' = crkShown \cup (IF crkMounted THEN ShownBy(crkState, crkKey') ELSE {})
    /\ UNCHANGED crkContinueClicks
    /\ UNCHANGED <<isSetupFlow, crkMounted, crkState, crkCrypto, crkText, crkIsKeyValid,
                   crkSubmits, crkCacheEnabled, crkFinishCalls, crkCancelCalls,
                   crkCreateCalls, crkCryptoAtMount, crkHistory, crkCompared>>
    /\ UNCHANGED crkOthers

\* createRecoveryKeyFromPassphrase rejects: the value stays undefined
CRKMemoRejects ==
    /\ crkKeyPc = "pending"
    /\ crkCryptoAtMount
    /\ crkKeyPc' = "rejected"
    /\ UNCHANGED crkContinueClicks
    /\ UNCHANGED <<isSetupFlow, crkMounted, crkState, crkKey, crkNextKey, crkCrypto, crkText,
                   crkIsKeyValid, crkSubmits, crkCacheEnabled, crkFinishCalls,
                   crkCancelCalls, crkCreateCalls, crkCryptoAtMount, crkHistory,
                   crkShown, crkCompared>>
    /\ UNCHANGED crkOthers

\* InformationPanel: onContinueClick={() => setState("save_key_setup_flow")}
CRKContinueClick ==
    /\ Rendered
    /\ crkState = "inform_user"
    /\ crkState' = "save_key_setup_flow"
    /\ crkHistory' = Append(crkHistory, crkState')
    /\ crkShown' = crkShown \cup ShownBy(crkState', crkKey)
    /\ crkContinueClicks' = crkContinueClicks + 1
    /\ UNCHANGED <<isSetupFlow, crkMounted, crkKeyPc, crkKey, crkNextKey, crkCrypto, crkText,
                   crkIsKeyValid, crkSubmits, crkCacheEnabled, crkFinishCalls,
                   crkCancelCalls, crkCreateCalls, crkCryptoAtMount, crkCompared>>
    /\ UNCHANGED crkOthers

\* KeyPanel: onConfirmClick={() => setState("confirm")}
CRKConfirmClick ==
    /\ Rendered
    /\ crkState \in {"save_key_setup_flow", "save_key_change_flow"}
    /\ crkState' = "confirm"
    /\ crkHistory' = Append(crkHistory, crkState')
    /\ crkContinueClicks' = crkContinueClicks + 1
    /\ UNCHANGED <<isSetupFlow, crkMounted, crkKeyPc, crkKey, crkNextKey, crkCrypto, crkText,
                   crkIsKeyValid, crkSubmits, crkCacheEnabled, crkFinishCalls,
                   crkCancelCalls, crkCreateCalls, crkCryptoAtMount, crkShown, crkCompared>>
    /\ UNCHANGED crkOthers

\* KeyForm: Root onChange, the user changed the text control to t
CRKInputChange(t) ==
    /\ Rendered
    /\ crkState = "confirm"
    /\ t # crkText
    /\ crkText' = t
    /\ crkIsKeyValid' = IF KeyMatches(t, crkKey.encodedPrivateKey) THEN "true" ELSE "false"
    /\ crkCompared' = crkCompared \cup {crkKey.id}
    /\ UNCHANGED crkContinueClicks
    /\ UNCHANGED <<isSetupFlow, crkMounted, crkState, crkKeyPc, crkKey, crkNextKey, crkCrypto,
                   crkSubmits, crkCacheEnabled, crkFinishCalls, crkCancelCalls,
                   crkCreateCalls, crkCryptoAtMount, crkHistory, crkShown>>
    /\ UNCHANGED crkOthers

\* (mutant of CRKSubmit: bootstrapSecretStorage is called outside the key
\* cache scope)
CRKSubmitUncached ==
    /\ Rendered
    /\ crkState = "confirm"
    /\ FinishEnabled
    /\ Len(crkSubmits) < MaxSubmits
    /\ IF ~crkCrypto
       THEN /\ crkFinishCalls' = crkFinishCalls + 1
            /\ crkSubmits' = Append(crkSubmits,
                   [pc |-> "nocrypto", key |-> NoKey,
                    setupNewKeyBackup |-> FALSE, setupNewSecretStorage |-> FALSE,
                    cacheAtCall |-> FALSE, cacheAtSettle |-> FALSE, finished |-> TRUE])
       ELSE /\ crkSubmits' = Append(crkSubmits,
                   [pc |-> "bootstrap", key |-> createSecretStorageKey,
                    setupNewKeyBackup |-> isSetupFlow, setupNewSecretStorage |-> TRUE,
                    cacheAtCall |-> crkCacheEnabled, cacheAtSettle |-> FALSE,
                    finished |-> FALSE])
            /\ UNCHANGED crkFinishCalls
    /\ UNCHANGED crkCacheEnabled
    /\ UNCHANGED crkContinueClicks
    /\ UNCHANGED <<isSetupFlow, crkMounted, crkState, crkKeyPc, crkKey, crkNextKey, crkCrypto,
                   crkText, crkIsKeyValid, crkCancelCalls, crkCreateCalls,
                   crkCryptoAtMount, crkHistory, crkShown, crkCompared>>
    /\ UNCHANGED crkOthers

\* KeyForm: Root onSubmit, then the onSubmit of ChangeRecoveryKey up to its
\* await: without crypto onFinish() at once, else the key cache is enabled
\* and bootstrapSecretStorage is called
CRKSubmit ==
    /\ Rendered
    /\ crkState = "confirm"
    /\ FinishEnabled
    /\ Len(crkSubmits) < MaxSubmits
    /\ IF ~crkCrypto
       THEN /\ crkFinishCalls' = crkFinishCalls + 1
            /\ crkSubmits' = Append(crkSubmits,
                   [pc |-> "nocrypto", key |-> NoKey,
                    setupNewKeyBackup |-> FALSE, setupNewSecretStorage |-> FALSE,
                    cacheAtCall |-> FALSE, cacheAtSettle |-> FALSE, finished |-> TRUE])
            /\ UNCHANGED crkCacheEnabled
       ELSE /\ crkCacheEnabled' = TRUE
            /\ crkSubmits' = Append(crkSubmits,
                   [pc |-> "bootstrap", key |-> createSecretStorageKey,
                    setupNewKeyBackup |-> isSetupFlow, setupNewSecretStorage |-> TRUE,
                    cacheAtCall |-> crkCacheEnabled', cacheAtSettle |-> FALSE,
                    finished |-> FALSE])
            /\ UNCHANGED crkFinishCalls
    /\ UNCHANGED crkContinueClicks
    /\ UNCHANGED <<isSetupFlow, crkMounted, crkState, crkKeyPc, crkKey, crkNextKey, crkCrypto,
                   crkText, crkIsKeyValid, crkCancelCalls, crkCreateCalls,
                   crkCryptoAtMount, crkHistory, crkShown, crkCompared>>
    /\ UNCHANGED crkOthers

\* what the submit does when bootstrapSecretStorage resolved, after the key
\* cache scope is left: onFinish()
AfterBootstrap(i) ==
    /\ crkFinishCalls' = crkFinishCalls + 1
    /\ crkSubmits' = [crkSubmits EXCEPT ![i].pc = "done", ![i].finished = TRUE,
                                        ![i].cacheAtSettle = crkCacheEnabled]

\* (mutant of CatchBootstrap: onFinish() in a finally, so after a failure too)
CatchBootstrapThenFinish(i) ==
    /\ crkSubmits' = [crkSubmits EXCEPT ![i].pc = "failed", ![i].finished = TRUE,
                                        ![i].cacheAtSettle = crkCacheEnabled]
    /\ crkFinishCalls' = crkFinishCalls + 1

\* what the submit does when bootstrapSecretStorage rejected, after the key
\* cache scope is left: logger.error(...), nothing else
CatchBootstrap(i) ==
    /\ crkSubmits' = [crkSubmits EXCEPT ![i].pc = "failed",
                                        ![i].cacheAtSettle = crkCacheEnabled]
    /\ UNCHANGED crkFinishCalls

\* bootstrapSecretStorage of submit i resolves
CRKBootstrapSucceeds(i) ==
    /\ crkSubmits[i].pc = "bootstrap"
    /\ crkCacheEnabled' = FALSE
    /\ AfterBootstrap(i)
    /\ UNCHANGED crkContinueClicks
    /\ UNCHANGED <<isSetupFlow, crkMounted, crkState, crkKeyPc, crkKey, crkNextKey, crkCrypto,
                   crkText, crkIsKeyValid, crkCancelCalls, crkCreateCalls,
                   crkCryptoAtMount, crkHistory, crkShown, crkCompared>>
    /\ UNCHANGED crkOthers

\* bootstrapSecretStorage of submit i rejects
CRKBootstrapFails(i) ==
    /\ crkSubmits[i].pc = "bootstrap"
    /\ crkCacheEnabled' = FALSE
    /\ CatchBootstrap(i)
    /\ UNCHANGED crkContinueClicks
    /\ UNCHANGED <<isSetupFlow, crkMounted, crkState, crkKeyPc, crkKey, crkNextKey, crkCrypto,
                   crkText, crkIsKeyValid, crkCancelCalls, crkCreateCalls,
                   crkCryptoAtMount, crkHistory, crkShown, crkCompared>>
    /\ UNCHANGED crkOthers

\* the controls wired to onCancelClick in the render of a state: the cancel
\* button of the state's panel, and the breadcrumb's back and page links
CancelControls(state) ==
    (IF state \in {"inform_user", "save_key_setup_flow", "save_key_change_flow", "confirm"}
     THEN {"cancel_button"} ELSE {})
        \cup {"breadcrumb_back", "breadcrumb_page"}

\* (mutant of CRKCancel: cancelling reports the flow as finished as well)
CRKCancelFinishes ==
    /\ Rendered
    /\ \E control \in CancelControls(crkState) : TRUE
    /\ crkCancelCalls < MaxClicks
    /\ crkCancelCalls' = crkCancelCalls + 1
    /\ crkFinishCalls' = crkFinishCalls + 1
    /\ UNCHANGED crkContinueClicks
    /\ UNCHANGED <<isSetupFlow, crkMounted, crkState, crkKeyPc, crkKey, crkNextKey, crkCrypto,
                   crkText, crkIsKeyValid, crkSubmits, crkCacheEnabled,
                   crkCreateCalls, crkCryptoAtMount, crkHistory, crkShown, crkCompared>>
    /\ UNCHANGED crkOthers

\* (mutant of CRKCancel: cancelling also takes the wizard back to its start)
CRKCancelRestarts ==
    /\ Rendered
    /\ crkCancelCalls < MaxClicks
    /\ crkCancelCalls' = crkCancelCalls + 1
    /\ crkState' = InitialState(isSetupFlow)
    /\ crkHistory' = IF crkState' = crkState THEN crkHistory ELSE Append(crkHistory, crkState')
    /\ UNCHANGED <<isSetupFlow, crkMounted, crkKeyPc, crkKey, crkNextKey, crkCrypto,
                   crkText, crkIsKeyValid, crkSubmits, crkCacheEnabled, crkFinishCalls,
                   crkCreateCalls, crkCryptoAtMount, crkContinueClicks, crkShown,
                   crkCompared>>
    /\ UNCHANGED crkOthers

\* a cancel button, the breadcrumb's back or a breadcrumb page: onCancelClick
CRKCancel ==
    /\ Rendered
    /\ \E control \in CancelControls(crkState) : TRUE
    /\ crkCancelCalls < MaxClicks
    /\ crkCancelCalls' = crkCancelCalls + 1
    /\ UNCHANGED crkContinueClicks
    /\ UNCHANGED <<isSetupFlow, crkMounted, crkState, crkKeyPc, crkKey, crkNextKey, crkCrypto,
                   crkText, crkIsKeyValid, crkSubmits, crkCacheEnabled, crkFinishCalls,
                   crkCreateCalls, crkCryptoAtMount, crkHistory, crkShown, crkCompared>>
    /\ UNCHANGED crkOthers

\* the parent, told of a cancel or a finish, removes the component
CRKUnmount ==
    /\ crkMounted
    /\ crkCancelCalls + crkFinishCalls > 0
    /\ crkMounted' = FALSE
    /\ UNCHANGED crkContinueClicks
    /\ UNCHANGED <<isSetupFlow, crkState, crkKeyPc, crkKey, crkNextKey, crkCrypto,
                   crkText, crkIsKeyValid, crkSubmits, crkCacheEnabled, crkFinishCalls,
                   crkCancelCalls, crkCreateCalls, crkCryptoAtMount, crkHistory,
                   crkShown, crkCompared>>
    /\ UNCHANGED crkOthers

\* the client's crypto module comes or goes
CRKEnvChange ==
    /\ crkCrypto' = ~crkCrypto
    /\ UNCHANGED <<isSetupFlow, crkMounted, crkState, crkKeyPc, crkKey, crkNextKey,
                   crkText, crkIsKeyValid, crkSubmits, crkCacheEnabled, crkFinishCalls,
                   crkCancelCalls, crkCreateCalls, crkCryptoAtMount, crkHistory,
                   crkContinueClicks, crkShown, crkCompared>>
    /\ UNCHANGED crkOthers

CRKNext ==
    \/ CRKMemoEffect
    \/ CRKMemoResolves
    \/ CRKMemoRejects
    \/ CRKContinueClick
    \/ CRKConfirmClick
    \/ \E t \in Texts : CRKInputChange(t)
    \/ CRKSubmit
    \/ \E i \in 1..Len(crkSubmits) : CRKBootstrapSucceeds(i)
    \/ \E i \in 1..Len(crkSubmits) : CRKBootstrapFails(i)
    \/ CRKCancel
    \/ CRKUnmount
    \/ CRKEnvChange

-----------------------------------------------------------------------------
(**********************  VoiceRecordComposerTile  **************************)

\* RecordingState of voice/VoiceRecording
RecordingStates == {"Started", "EndingSoon", "Ended", "Uploading", "Uploaded"}

\* number of bars of the waveform shown; imported from voice/VoiceRecording
RECORDING_PLAYBACK_SAMPLES == 2

\* Sample values are counted in halves: 0 is 0.0, 1 is 0.5, 2 is 1.0.
\* The waveforms a recorder reports: samples between 0.0 and 1.0
Waveforms == {<<0>>, <<1, 2>>, <<2, 0, 1>>}

\* content URIs an upload may return
Mxcs == {"mxc://a", "mxc://b"}

\* arraySeed(val, length)
arraySeed(val, length) == [i \in 1..length |-> val]

\* utils/arrays arrayFastResample: the input as it is when it has the wanted
\* length, every n-th sample of a longer one, each sample repeated for a
\* shorter one; then filled with the last sample and cut to the length
arrayFastResample(input, points) ==
    IF Len(input) = points THEN input
    ELSE LET everyNth == (2 * Len(input) + points) \div (2 * points)
             spreadFactor == (points + Len(input) - 1) \div Len(input)
             samples ==
                 IF Len(input) > points
                 THEN [k \in 1..((Len(input) + everyNth - 1) \div everyNth) |->
                          input[(k - 1) * everyNth + 1]]
                 ELSE [k \in 1..(Len(input) * spreadFactor) |->
                          input[((k - 1) \div spreadFactor) + 1]]
         IN [k \in 1..points |->
                IF k <= Len(samples) THEN samples[k] ELSE input[Len(input)]]

\* utils/numbers percentageOf(val, min, max) = (val - min) / (max - min),
\* on values counted in halves
percentageOf(val, min, max) == (2 * (val - min)) \div (max - min)

\* relHeights: bars.map(b => percentageOf(b, 0, 0.50))
relHeightsOf(waveform) ==
    LET bars == arrayFastResample(waveform, RECORDING_PLAYBACK_SAMPLES)
    IN [k \in 1..Len(bars) |-> percentageOf(bars[k], 0, 1)]

NoUpdate == [waveform |-> <<>>, timeSeconds |-> 0]

NewRecorder == [started |-> FALSE, stopped |-> FALSE, destroyed |-> FALSE,
                listener |-> FALSE, subscribed |-> FALSE]

\* a handler invocation: what it awaits, the recorder it stops or starts
\* (rec), the recorder it uploads (up), the upload's result (mxc), the result
\* of the device probe, and the external calls it made
NewTask(kind, pc) == [kind |-> kind, pc |-> pc, rec |-> 0, up |-> 0, mxc |-> "",
                      probe |-> "none", log |-> <<>>]

\* a handler invocation that returned or threw: its references are dropped
Finish(task, pc) == [task EXCEPT !.pc = pc, !.rec = 0, !.up = 0, !.mxc = ""]

\* history: what a device enumeration that answered n audio inputs found
Probed(n) == IF n = 0 THEN "empty" ELSE "ok"

\* recorder.isRecording
isRecording(r) == vrRecs[r].started /\ ~vrRecs[r].stopped

\* render(): the record/stop button is there
RecordButtonShown ==
    /\ vrMounted
    /\ vrPhase \in {"none", "Started"}
    /\ ~(vrRecorder # 0 /\ ~isRecording(vrRecorder))

\* render(): the delete button is there
DeleteButtonShown ==
    /\ vrMounted
    /\ vrRecorder # 0
    /\ vrPhase # "Uploading"

\* VoiceRecordingStore.disposeRecording: the current recording is destroyed
\* (its listeners and its live data go) and the store holds none
storeDisposedRecs ==
    IF vsCurrent = 0 THEN vrRecs
    ELSE [vrRecs EXCEPT ![vsCurrent].destroyed = TRUE, ![vsCurrent].listener = FALSE,
                        ![vsCurrent].subscribed = FALSE]

\* (mutant of NoMicrophone: the length is compared the wrong way)
NoMicrophoneNever(n) == n < 0

\* if (!devices?.['audioinput']?.length): no audio input among the devices
NoMicrophone(n) == n = 0

\* the payload given to sendMessage for the uploaded content mxc
MessagePayload(mxc) == [msgtype |-> "m.audio", url |-> mxc, fileUrl |-> mxc]

\* VoiceRecordingStore.startRecording throws: a recording is in progress
startRecordingThrows == vsCurrent # 0

VRInit ==
    /\ vrMounted = TRUE
    /\ vrRecorder = 0
    /\ vrPhase = "none"
    /\ vrRelHeights = arraySeed(0, RECORDING_PLAYBACK_SAMPLES)
    /\ vrSeconds = 0
    /\ vrWaveform = <<>>
    /\ vrSecondsField = 0
    /\ vrScheduled = FALSE
    /\ vrRaf = 0
    /\ vrTasks = <<>>
    /\ vsCurrent = 0
    /\ vrRecs = <<>>
    /\ vrSent = <<>>
    /\ vrUpdates = 0
    /\ vrLastUpdate = NoUpdate
    /\ vrFrame = [frames |-> 0, flushes |-> 0, relHeights |-> <<>>, seconds |-> 0,
                  update |-> NoUpdate]

\* onRecordStartEndClick up to its first await: with a recorder in state
\* recorder.stop() is awaited, without one the devices are enumerated
VRRecordClick ==
    /\ RecordButtonShown
    /\ Len(vrTasks) < MaxTasks
    /\ vrTasks' = Append(vrTasks,
          IF vrRecorder # 0
          THEN [NewTask("click", "awaitStopClick") EXCEPT !.rec = vrRecorder,
                                                         !.log = <<"stop">>]
          ELSE [NewTask("click", "awaitDevices") EXCEPT !.log = <<"getDevices">>])
    /\ UNCHANGED <<vrMounted, vrRecorder, vrPhase, vrRelHeights, vrSeconds, vrWaveform,
                   vrSecondsField, vrScheduled, vrRaf, vsCurrent, vrRecs,
                   vrSent, vrUpdates, vrLastUpdate, vrFrame>>
    /\ UNCHANGED vrOthers

\* the recorder.stop() awaited by a click settles: return (a rejection
\* leaves the handler as well)
VRClickStopSettles(i) ==
    /\ vrTasks[i].pc = "awaitStopClick"
    /\ vrTasks' = [vrTasks EXCEPT ![i] = Finish(@, "done")]
    /\ \E ok \in BOOLEAN :
          vrRecs' = IF ok THEN [vrRecs EXCEPT ![vrTasks[i].rec].stopped = TRUE] ELSE vrRecs
    /\ UNCHANGED <<vrMounted, vrRecorder, vrPhase, vrRelHeights, vrSeconds, vrWaveform,
                   vrSecondsField, vrScheduled, vrRaf, vsCurrent,
                   vrSent, vrUpdates, vrLastUpdate, vrFrame>>
    /\ UNCHANGED vrOthers

\* CallMediaHandler.getDevices() resolves with n audio inputs: none shows the
\* "No microphone found" dialog and returns; else startRecording(), which
\* either throws into the catch (dialog, disposeRecording not awaited) or
\* answers the recorder whose start() is then awaited
VRDevicesResolve(i, n) ==
    /\ vrTasks[i].pc = "awaitDevices"
    /\ IF NoMicrophone(n)
       THEN /\ vrTasks' = [vrTasks EXCEPT ![i].pc = "done", ![i].probe = Probed(n),
                                          ![i].log = Append(@, "dialog")]
            /\ UNCHANGED <<vsCurrent, vrRecs>>
       ELSE IF startRecordingThrows
       THEN /\ vrRecs' = storeDisposedRecs
            /\ vsCurrent' = 0
            /\ vrTasks' = [vrTasks EXCEPT ![i].pc = "done", ![i].probe = Probed(n),
                              ![i].log = @ \o <<"startRecording", "dialog", "disposeRecording">>]
       ELSE /\ vrRecs' = Append(vrRecs, NewRecorder)
            /\ vsCurrent' = Len(vrRecs) + 1
            /\ vrTasks' = [vrTasks EXCEPT ![i].pc = "awaitStart", ![i].probe = Probed(n),
                              ![i].rec = Len(vrRecs) + 1,
                              ![i].log = @ \o <<"startRecording", "start">>]
    /\ UNCHANGED <<vrMounted, vrRecorder, vrPhase, vrRelHeights, vrSeconds, vrWaveform,
                   vrSecondsField, vrScheduled, vrRaf,
                   vrSent, vrUpdates, vrLastUpdate, vrFrame>>
    /\ UNCHANGED vrOthers

\* CallMediaHandler.getDevices() rejects: accessError() and return
VRDevicesReject(i) ==
    /\ vrTasks[i].pc = "awaitDevices"
    /\ vrTasks' = [vrTasks EXCEPT ![i].pc = "done", ![i].probe = "failed",
                                  ![i].log = Append(@, "dialog")]
    /\ UNCHANGED <<vrMounted, vrRecorder, vrPhase, vrRelHeights, vrSeconds, vrWaveform,
                   vrSecondsField, vrScheduled, vrRaf, vsCurrent, vrRecs,
                   vrSent, vrUpdates, vrLastUpdate, vrFrame>>
    /\ UNCHANGED vrOthers

\* recorder.start() resolves: the phase listener is registered and
\* setState({recorder, recordingPhase: Started}); componentDidUpdate then
\* subscribes onRecordingUpdate when there was no recorder before
VRStartResolves(i) ==
    /\ vrTasks[i].pc = "awaitStart"
    /\ LET r == vrTasks[i].rec
       IN /\ vrRecs' = [vrRecs EXCEPT ![r].started = TRUE, ![r].listener = TRUE,
                           ![r].subscribed = @ \/ (vrMounted /\ vrRecorder = 0)]
          /\ vrRecorder' = IF vrMounted THEN r ELSE vrRecorder
          /\ vrPhase' = IF vrMounted THEN "Started" ELSE vrPhase
    /\ vrTasks' = [vrTasks EXCEPT ![i] = Finish(@, "done")]
    /\ UNCHANGED <<vrMounted, vrRelHeights, vrSeconds, vrWaveform,
                   vrSecondsField, vrScheduled, vrRaf, vsCurrent,
                   vrSent, vrUpdates, vrLastUpdate, vrFrame>>
    /\ UNCHANGED vrOthers

\* (mutant of VRStartRejects: the recorder that failed to start is put into
\* the state before the catch runs)
VRStartRejectsKeepsRecorder(i) ==
    /\ vrTasks[i].pc = "awaitStart"
    /\ vrRecs' = storeDisposedRecs
    /\ vsCurrent' = 0
    /\ vrRecorder' = vrTasks[i].rec
    /\ vrTasks' = [vrTasks EXCEPT
          ![i] = Finish([@ EXCEPT !.log = @ \o <<"dialog", "disposeRecording">>], "done")]
    /\ UNCHANGED <<vrMounted, vrPhase, vrRelHeights, vrSeconds, vrWaveform,
                   vrSecondsField, vrScheduled, vrRaf,
                   vrSent, vrUpdates, vrLastUpdate, vrFrame>>
    /\ UNCHANGED vrOthers

\* recorder.start() rejects: the catch shows accessError() and calls
\* VoiceRecordingStore.disposeRecording() without awaiting it
VRStartRejects(i) ==
    /\ vrTasks[i].pc = "awaitStart"
    /\ vrRecs' = storeDisposedRecs
    /\ vsCurrent' = 0
    /\ vrTasks' = [vrTasks EXCEPT
          ![i] = Finish([@ EXCEPT !.log = @ \o <<"dialog", "disposeRecording">>], "done")]
    /\ UNCHANGED <<vrMounted, vrRecorder, vrPhase, vrRelHeights, vrSeconds, vrWaveform,
                   vrSecondsField, vrScheduled, vrRaf,
                   vrSent, vrUpdates, vrLastUpdate, vrFrame>>
    /\ UNCHANGED vrOthers

\* send() up to its first await: no recorder throws, else recorder.stop()
VRSend ==
    /\ vrMounted
    /\ Len(vrTasks) < MaxTasks
    /\ vrTasks' = Append(vrTasks,
          IF vrRecorder = 0 THEN NewTask("send", "threw")
          ELSE [NewTask("send", "awaitStop") EXCEPT !.rec = vrRecorder,
                                                   !.log = <<"stop">>])
    /\ UNCHANGED <<vrMounted, vrRecorder, vrPhase, vrRelHeights, vrSeconds, vrWaveform,
                   vrSecondsField, vrScheduled, vrRaf, vsCurrent, vrRecs,
                   vrSent, vrUpdates, vrLastUpdate, vrFrame>>
    /\ UNCHANGED vrOthers

\* await this.state.recorder.stop() resolves; this.state.recorder.upload()
\* is called on the recorder the state holds now (a TypeError without one)
VRStopResolves(i) ==
    /\ vrTasks[i].pc = "awaitStop"
    /\ vrRecs' = [vrRecs EXCEPT ![vrTasks[i].rec].stopped = TRUE]
    /\ vrTasks' = [vrTasks EXCEPT ![i] =
          IF vrRecorder = 0
          THEN Finish([@ EXCEPT !.log = Append(@, "stopped")], "threw")
          ELSE [@ EXCEPT !.pc = "awaitUpload", !.up = vrRecorder,
                         !.log = @ \o <<"stopped", "upload">>]]
    /\ UNCHANGED <<vrMounted, vrRecorder, vrPhase, vrRelHeights, vrSeconds, vrWaveform,
                   vrSecondsField, vrScheduled, vrRaf, vsCurrent,
                   vrSent, vrUpdates, vrLastUpdate, vrFrame>>
    /\ UNCHANGED vrOthers

\* (mutant of VRSendRejects: a rejected stop is swallowed and the upload goes on)
VRSendRejectsSwallowed(i) ==
    /\ vrTasks[i].pc \in {"awaitStop", "awaitUpload"}
    /\ vrTasks' = [vrTasks EXCEPT ![i] =
          IF @.pc = "awaitStop" /\ vrRecorder # 0
          THEN [@ EXCEPT !.pc = "awaitUpload", !.up = vrRecorder, !.log = Append(@, "upload")]
          ELSE Finish(@, "threw")]
    /\ UNCHANGED <<vrMounted, vrRecorder, vrPhase, vrRelHeights, vrSeconds, vrWaveform,
                   vrSecondsField, vrScheduled, vrRaf, vsCurrent, vrRecs,
                   vrSent, vrUpdates, vrLastUpdate, vrFrame>>
    /\ UNCHANGED vrOthers

\* recorder.stop() or recorder.upload() rejects: send() has no try/catch
VRSendRejects(i) ==
    /\ vrTasks[i].pc \in {"awaitStop", "awaitUpload"}
    /\ vrTasks' = [vrTasks EXCEPT ![i] = Finish(@, "threw")]
    /\ UNCHANGED <<vrMounted, vrRecorder, vrPhase, vrRelHeights, vrSeconds, vrWaveform,
                   vrSecondsField, vrScheduled, vrRaf, vsCurrent, vrRecs,
                   vrSent, vrUpdates, vrLastUpdate, vrFrame>>
    /\ UNCHANGED vrOthers

\* recorder.upload() resolves with mxc: the payload is built from
\* this.state.recorder (a TypeError without one) and sendMessage is called,
\* then this.disposeRecording() calls the store's disposeRecording
VRUploadResolves(i, mxc) ==
    /\ vrTasks[i].pc = "awaitUpload"
    /\ IF vrRecorder = 0
       THEN /\ vrTasks' = [vrTasks EXCEPT
                  ![i] = Finish([@ EXCEPT !.log = Append(@, "uploaded")], "threw")]
            /\ UNCHANGED <<vrSent, vrRecs, vsCurrent>>
       ELSE /\ vrSent' = Append(vrSent,
                  [task |-> i, payload |-> MessagePayload(mxc), returned |-> mxc,
                   stopped |-> vrTasks[i].rec, uploaded |-> vrTasks[i].up,
                   after |-> Append(vrTasks[i].log, "uploaded")])
            /\ vrRecs' = storeDisposedRecs
            /\ vsCurrent' = 0
            /\ vrTasks' = [vrTasks EXCEPT ![i].pc = "awaitDispose", ![i].mxc = mxc,
                  ![i].log = @ \o <<"uploaded", "sendMessage", "disposeRecording">>]
    /\ UNCHANGED <<vrMounted, vrRecorder, vrPhase, vrRelHeights, vrSeconds, vrWaveform,
                   vrSecondsField, vrScheduled, vrRaf,
                   vrUpdates, vrLastUpdate, vrFrame>>
    /\ UNCHANGED vrOthers

\* (mutant of VRCancel: the state is reset at once, the store is asked later)
VRCancelResetsFirst ==
    /\ DeleteButtonShown
    /\ Len(vrTasks) < MaxTasks
    /\ vrRecorder' = 0
    /\ vrPhase' = "none"
    /\ vrTasks' = Append(vrTasks, [NewTask("cancel", "awaitDispose") EXCEPT
                                      !.log = <<"disposeRecording">>])
    /\ UNCHANGED <<vrMounted, vrRelHeights, vrSeconds, vrWaveform,
                   vrSecondsField, vrScheduled, vrRaf, vsCurrent, vrRecs,
                   vrSent, vrUpdates, vrLastUpdate, vrFrame>>
    /\ UNCHANGED vrOthers

\* onCancel: this.disposeRecording() up to its await
VRCancel ==
    /\ DeleteButtonShown
    /\ Len(vrTasks) < MaxTasks
    /\ vrRecs' = storeDisposedRecs
    /\ vsCurrent' = 0
    /\ vrTasks' = Append(vrTasks, [NewTask("cancel", "awaitDispose") EXCEPT
                                      !.log = <<"disposeRecording">>])
    /\ UNCHANGED <<vrMounted, vrRecorder, vrPhase, vrRelHeights, vrSeconds, vrWaveform,
                   vrSecondsField, vrScheduled, vrRaf,
                   vrSent, vrUpdates, vrLastUpdate, vrFrame>>
    /\ UNCHANGED vrOthers

\* disposeRecording(): the store's disposeRecording resolved;
\* setState({recorder: null, recordingPhase: null})
VRDisposeResolves(i) ==
    /\ vrTasks[i].pc = "awaitDispose"
    /\ vrTasks' = [vrTasks EXCEPT ![i] = Finish(@, "done")]
    /\ vrRecorder' = IF vrMounted THEN 0 ELSE vrRecorder
    /\ vrPhase' = IF vrMounted THEN "none" ELSE vrPhase
    /\ UNCHANGED <<vrMounted, vrRelHeights, vrSeconds, vrWaveform,
                   vrSecondsField, vrScheduled, vrRaf, vsCurrent, vrRecs,
                   vrSent, vrUpdates, vrLastUpdate, vrFrame>>
    /\ UNCHANGED vrOthers

\* the store's disposeRecording rejects: disposeRecording() throws before
\* its setState
VRDisposeRejects(i) ==
    /\ vrTasks[i].pc = "awaitDispose"
    /\ vrTasks' = [vrTasks EXCEPT ![i] = Finish(@, "threw")]
    /\ UNCHANGED <<vrMounted, vrRecorder, vrPhase, vrRelHeights, vrSeconds, vrWaveform,
                   vrSecondsField, vrScheduled, vrRaf, vsCurrent, vrRecs,
                   vrSent, vrUpdates, vrLastUpdate, vrFrame>>
    /\ UNCHANGED vrOthers

\* (mutant of VRPhaseEvent: every emitted phase is copied, EndingSoon too)
VRPhaseEventUnfiltered(r, ev) ==
    /\ vrRecs[r].listener
    /\ vrMounted
    /\ vrPhase' = ev
    /\ vrPhase' # vrPhase
    /\ UNCHANGED <<vrMounted, vrRecorder, vrRelHeights, vrSeconds, vrWaveform,
                   vrSecondsField, vrScheduled, vrRaf, vrTasks, vsCurrent, vrRecs,
                   vrSent, vrUpdates, vrLastUpdate, vrFrame>>
    /\ UNCHANGED vrOthers

\* the UPDATE_EVENT listener: recorder r emits phase ev
VRPhaseEvent(r, ev) ==
    /\ vrRecs[r].listener
    /\ IF ev = "EndingSoon" \/ ~vrMounted
       THEN UNCHANGED vrPhase
       ELSE vrPhase' = ev
    /\ vrPhase' # vrPhase \/ ev = "EndingSoon"
    /\ UNCHANGED <<vrMounted, vrRecorder, vrRelHeights, vrSeconds, vrWaveform,
                   vrSecondsField, vrScheduled, vrRaf, vrTasks, vsCurrent, vrRecs,
                   vrSent, vrUpdates, vrLastUpdate, vrFrame>>
    /\ UNCHANGED vrOthers

\* (mutant of ScheduleFlush: a frame is requested for every update)
ScheduleFlushAlways ==
    /\ vrScheduled' = TRUE
    /\ vrRaf' = vrRaf + 1

\* what onRecordingUpdate does about the animation frame: nothing when one
\* is scheduled, else it sets the flag and requests one
ScheduleFlush ==
    IF vrScheduled
    THEN UNCHANGED <<vrScheduled, vrRaf>>
    ELSE /\ vrScheduled' = TRUE
         /\ vrRaf' = vrRaf + 1

\* onRecordingUpdate(update), called by the live data of a subscribed recorder
VRRecordingUpdate(r, w) ==
    /\ vrRecs[r].subscribed
    /\ isRecording(r)
    /\ vrUpdates < MaxUpdates
    /\ vrUpdates' = vrUpdates + 1
    /\ vrLastUpdate' = [waveform |-> w, timeSeconds |-> vrUpdates + 1]
    /\ vrWaveform' = w
    /\ vrSecondsField' = vrUpdates + 1
    /\ ScheduleFlush
    /\ UNCHANGED <<vrMounted, vrRecorder, vrPhase, vrRelHeights, vrSeconds, vrTasks,
                   vsCurrent, vrRecs, vrSent, vrFrame>>
    /\ UNCHANGED vrOthers

\* the callback given to requestAnimationFrame
\* (the values it sets, and the flag it clears)
FlushedRelHeights == relHeightsOf(vrWaveform)

FlushedSeconds == vrSecondsField

\* the browser's next display refresh runs every callback requested before it
VRAnimationFrame ==
    /\ vrRaf > 0
    /\ vrRaf' = 0
    /\ vrScheduled' = FALSE
    /\ vrRelHeights' = IF vrMounted THEN FlushedRelHeights ELSE vrRelHeights
    /\ vrSeconds' = IF vrMounted THEN FlushedSeconds ELSE vrSeconds
    /\ vrFrame' = [frames |-> vrFrame.frames + 1, flushes |-> vrRaf,
                   relHeights |-> FlushedRelHeights, seconds |-> FlushedSeconds,
                   update |-> vrLastUpdate]
    /\ UNCHANGED <<vrMounted, vrRecorder, vrPhase, vrWaveform, vrSecondsField, vrTasks,
                   vsCurrent, vrRecs, vrSent, vrUpdates, vrLastUpdate>>
    /\ UNCHANGED vrOthers

\* componentWillUnmount: VoiceRecordingStore.instance.disposeRecording()
VRUnmount ==
    /\ vrMounted
    /\ vrMounted' = FALSE
    /\ vrRecs' = storeDisposedRecs
    /\ vsCurrent' = 0
    /\ UNCHANGED <<vrRecorder, vrPhase, vrRelHeights, vrSeconds, vrWaveform,
                   vrSecondsField, vrScheduled, vrRaf, vrTasks,
                   vrSent, vrUpdates, vrLastUpdate, vrFrame>>
    /\ UNCHANGED vrOthers

VRNext ==
    \/ VRRecordClick
    \/ \E i \in 1..Len(vrTasks) : VRClickStopSettles(i)
    \/ \E i \in 1..Len(vrTasks), n \in 0..1 : VRDevicesResolve(i, n)
    \/ \E i \in 1..Len(vrTasks) : VRDevicesReject(i)
    \/ \E i \in 1..Len(vrTasks) : VRStartResolves(i)
    \/ \E i \in 1..Len(vrTasks) : VRStartRejects(i)
    \/ VRSend
    \/ \E i \in 1..Len(vrTasks) : VRStopResolves(i)
    \/ \E i \in 1..Len(vrTasks) : VRSendRejects(i)
    \/ \E i \in 1..Len(vrTasks), mxc \in Mxcs : VRUploadResolves(i, mxc)
    \/ VRCancel
    \/ \E i \in 1..Len(vrTasks) : VRDisposeResolves(i)
    \/ \E i \in 1..Len(vrTasks) : VRDisposeRejects(i)
    \/ \E r \in 1..Len(vrRecs), ev \in RecordingStates : VRPhaseEvent(r, ev)
    \/ \E r \in 1..Len(vrRecs), w \in Waveforms : VRRecordingUpdate(r, w)
    \/ VRAnimationFrame
    \/ VRUnmount

-----------------------------------------------------------------------------
\* One specification per component; the other components stay as constructed.

RPParked == RPInit /\ rpCrypto /\ rpBackup /\ rpCached = [s \in Secrets |-> TRUE]

CRKParked == CRKInit /\ isSetupFlow /\ crkCrypto

InitRecoveryPanel == RPInit /\ CRKParked /\ VRInit

InitChangeRecoveryKey == CRKInit /\ RPParked /\ VRInit

InitVoiceRecord == VRInit /\ RPParked /\ CRKParked

SpecRecoveryPanel == InitRecoveryPanel /\ [][RPNext]_vars

SpecChangeRecoveryKey == InitChangeRecoveryKey /\ [][CRKNext]_vars

SpecVoiceRecord == InitVoiceRecord /\ [][VRNext]_vars

-----------------------------------------------------------------------------
(******************************  Claims  ***********************************)

\* the state the specification derives from what a check observed
C1_Derived(obs) ==
    IF ~obs.hasBackup THEN "missing_backup"
    ELSE IF \E s \in Secrets : ~obs.cached[s] THEN "secrets_not_cached"
    ELSE "good"

\* C1: a checkEncryption that ran to completion with crypto available has set
\* the panel state to exactly missing_backup (no backup key), secrets_not_cached
\* (a key, and one of the three secrets not cached) or good (a key, all three
\* cached), for every combination; a completed check never leaves loading.
C1_CheckSetsDerivedState ==
    /\ rpLast.id # 0 =>
          /\ rpState = C1_Derived(rpLast)
          /\ rpState # "loading"
          /\ rpChecks[rpLast.id] = [pc |-> "done", set |-> rpState]
          /\ rpLast.sawStatus = rpLast.hasBackup
    /\ \A i \in 1..Len(rpChecks) :
          rpChecks[i].pc = "done" =>
              rpChecks[i].set \in {"missing_backup", "secrets_not_cached", "good"}

\* a check found a backup key, the master and self signing keys cached and the
\* user signing key not cached, and the panel shows secrets_not_cached
C1_Witness ==
    /\ rpLast.id # 0
    /\ rpLast.hasBackup
    /\ rpLast.cached = [s \in Secrets |-> s # "userSigningKey"]
    /\ rpState = "secrets_not_cached"

\* t is s without its leading and trailing blanks
C2_IsTrimOf(t, s) ==
    \E i \in 0..Len(s), j \in 0..Len(s) :
        /\ i + j <= Len(s)
        /\ \A k \in 1..i : s[k] = " "
        /\ \A k \in (Len(s) - j + 1)..Len(s) : s[k] = " "
        /\ t = SubSeq(s, i + 1, Len(s) - j)
        /\ t # <<>> => (t[1] # " " /\ t[Len(t)] # " ")

\* C2: in the confirm state the finish control is enabled exactly when the
\* entered text, trimmed, equals the generated key; before any input it is
\* disabled; and a commit is only ever started while the text matches.
C2_SubmitOnlyOnMatch ==
    /\ [](crkState = "confirm" =>
            /\ FinishEnabled <=> C2_IsTrimOf(crkKey.encodedPrivateKey, crkText)
            /\ crkIsKeyValid = "undefined" => (crkText = <<>> /\ ~FinishEnabled))
    /\ [][Len(crkSubmits') > Len(crkSubmits) =>
            C2_IsTrimOf(crkKey.encodedPrivateKey, crkText)]_vars

\* the key is "a", the user typed " a", the control is enabled and a commit
\* was started
C2_Witness ==
    /\ crkState = "confirm"
    /\ crkKey.encodedPrivateKey = <<"a">>
    /\ crkText = <<" ", "a">>
    /\ FinishEnabled
    /\ Len(crkSubmits) > 0

\* C3: the wizard starts in inform_user when isSetupFlow, in
\* save_key_change_flow otherwise, and in no other state.
C3_InitialState ==
    /\ crkHistory[1] = (IF isSetupFlow THEN "inform_user" ELSE "save_key_change_flow")
    /\ crkContinueClicks = 0 => crkState = crkHistory[1]

\* the change flow, rendered with its key, before any click
C3_Witness ==
    /\ ~isSetupFlow
    /\ Rendered
    /\ crkContinueClicks = 0
    /\ crkState = "save_key_change_flow"

C4_Transitions ==
    {<<"inform_user", "save_key_setup_flow">>, <<"save_key_setup_flow", "confirm">>,
     <<"save_key_change_flow", "confirm">>}

\* C4: the wizard state changes only by inform_user -> save_key_setup_flow,
\* save_key_setup_flow -> confirm and save_key_change_flow -> confirm, each on
\* a continue click; confirm is never left; a cancel, a submit and the end of
\* a bootstrap leave the state alone.
C4_LinearProgression ==
    [][/\ crkState' # crkState =>
            /\ <<crkState, crkState'>> \in C4_Transitions
            /\ crkContinueClicks' = crkContinueClicks + 1
       /\ crkState = "confirm" => crkState' = "confirm"
       /\ (crkCancelCalls' # crkCancelCalls \/ crkSubmits' # crkSubmits
             \/ crkFinishCalls' # crkFinishCalls) => crkState' = crkState]_vars

\* the setup flow went through its three states, was cancelled and saw a
\* bootstrap fail
C4_Witness ==
    /\ crkHistory = <<"inform_user", "save_key_setup_flow", "confirm">>
    /\ crkCancelCalls > 0
    /\ \E i \in 1..Len(crkSubmits) : crkSubmits[i].pc = "failed"

\* the key shown, the key compared with and the key committed are the one
\* key of this activation
C5_OneKey ==
    /\ crkCreateCalls <= 1
    /\ crkKey.id <= 1
    /\ crkShown \subseteq {crkKey.id}
    /\ crkCompared \subseteq {crkKey.id}
    /\ \A i \in 1..Len(crkSubmits) :
          crkSubmits[i].pc # "nocrypto" => crkSubmits[i].key = crkKey

\* C5 as stated: createRecoveryKeyFromPassphrase is called exactly once per
\* activation, and that one key is shown, compared with and committed.
C5_CalledExactlyOnce ==
    /\ crkKeyPc # "init" => crkCreateCalls = 1
    /\ C5_OneKey

\* C5 as amended: createRecoveryKeyFromPassphrase is called at most once per
\* activation: once when the crypto collaborator is there at mount, never
\* when it is not (nothing is rendered then); the key it gave is the one
\* shown, compared with and committed, and it is never replaced.
C5_KeyGeneratedAtMostOnce ==
    /\ [](/\ crkKeyPc # "init" => crkCreateCalls = (IF crkCryptoAtMount THEN 1 ELSE 0)
          /\ C5_OneKey)
    /\ [][crkKey # NoKey => crkKey' = crkKey]_vars

\* the key was shown, compared with and handed to a bootstrap
C5_Witness ==
    /\ crkCreateCalls = 1
    /\ crkShown = {1}
    /\ crkCompared = {1}
    /\ \E i \in 1..Len(crkSubmits) : crkSubmits[i].key.id = 1

\* C6: onFinish is invoked only after a bootstrapSecretStorage call of this
\* activation completed successfully, also when crypto is gone at submit.
C6_FinishOnlyAfterBootstrap ==
    crkFinishCalls <= Cardinality({i \in 1..Len(crkSubmits) : crkSubmits[i].pc = "done"})

\* C7: a failed bootstrap is contained: no onFinish for that submit, the
\* wizard stays in confirm with the same key, no bootstrap is started by the
\* failure, and the form is left as it was for a resubmit or a cancel.
C7_FailureContained ==
    /\ [](\A i \in 1..Len(crkSubmits) :
             crkSubmits[i].pc = "failed" => ~crkSubmits[i].finished)
    /\ [][\A i \in 1..Len(crkSubmits) :
             (crkSubmits[i].pc = "bootstrap" /\ crkSubmits'[i].pc = "failed") =>
                 /\ crkFinishCalls' = crkFinishCalls
                 /\ crkState = "confirm" /\ crkState' = "confirm"
                 /\ crkKey' = crkKey
                 /\ Len(crkSubmits') = Len(crkSubmits)
                 /\ \A j \in 1..Len(crkSubmits) : j # i => crkSubmits'[j] = crkSubmits[j]
                 /\ Rendered' = Rendered
                 /\ FinishEnabled' = FinishEnabled
                 /\ crkText' = crkText]_vars

\* a bootstrap failed, the user submitted again and that bootstrap is running
C7_Witness ==
    /\ crkState = "confirm"
    /\ \E i, j \in 1..Len(crkSubmits) :
          /\ i < j
          /\ crkSubmits[i].pc = "failed"
          /\ crkSubmits[j].pc = "bootstrap"
    /\ crkFinishCalls = 0

\* C8: when the device enumeration of a record click finds no audio input or
\* fails, an error dialog is shown and the click ends there: it never calls
\* startRecording, no recorder is created, and state.recorder is left as it
\* is (null, unless another click's start completed meanwhile).
C8_NoDeviceAborts ==
    /\ [](\A i \in 1..Len(vrTasks) :
             vrTasks[i].probe \in {"empty", "failed"} =>
                 /\ vrTasks[i].kind = "click"
                 /\ vrTasks[i].pc = "done"
                 /\ vrTasks[i].log = <<"getDevices", "dialog">>)
    /\ [][\A i \in 1..Len(vrTasks) :
             (vrTasks[i].pc = "awaitDevices" /\ vrTasks'[i].probe \in {"empty", "failed"}) =>
                 /\ vrRecorder' = vrRecorder
                 /\ vrRecs' = vrRecs
                 /\ vsCurrent' = vsCurrent
                 /\ vrRecorder' # 0 =>
                       \E j \in 1..Len(vrTasks) :
                           j # i /\ vrTasks[j].log = <<"getDevices", "startRecording", "start">>]_vars

\* a click found no audio input and another one found none it could reach;
\* no recorder exists
C8_Witness ==
    /\ \E i, j \in 1..Len(vrTasks) :
          vrTasks[i].probe = "empty" /\ vrTasks[j].probe = "failed"
    /\ vrRecorder = 0
    /\ vrRecs = <<>>

\* C9: at most one animation-frame flush is pending at any time, a frame
\* flushes at most once however many updates came before it, and what it
\* flushes are the values of the update received last before it.
C9_UpdatesCoalesced ==
    /\ vrRaf <= 1
    /\ vrScheduled <=> vrRaf = 1
    /\ vrFrame.flushes <= 1
    /\ vrFrame.frames > 0 =>
          /\ vrFrame.seconds = vrFrame.update.timeSeconds
          /\ vrFrame.relHeights = relHeightsOf(vrFrame.update.waveform)
    /\ (vrMounted /\ vrFrame.frames > 0) =>
          (vrSeconds = vrFrame.seconds /\ vrRelHeights = vrFrame.relHeights)
    /\ (vrRaf = 0 /\ vrUpdates > 0) => vrFrame.update = vrLastUpdate

\* two updates came before the first frame, which flushed the second one
C9_Witness ==
    /\ vrFrame.frames = 1
    /\ vrFrame.flushes = 1
    /\ vrUpdates = 2
    /\ vrSeconds = 2
    /\ vrRelHeights = relHeightsOf(<<2, 0, 1>>)

C10_Order == <<"stop", "stopped", "upload", "uploaded", "sendMessage", "disposeRecording">>

\* C10: in every send() the stop completes before the upload is started and
\* the upload completes before sendMessage is called; no message is sent
\* when the stop or the upload did not complete; the payload carries the
\* content URL that upload returned.
C10_StopUploadSend ==
    /\ \A i \in 1..Len(vrTasks) :
          vrTasks[i].kind = "send" =>
              /\ Len(vrTasks[i].log) <= Len(C10_Order)
              /\ vrTasks[i].log = SubSeq(C10_Order, 1, Len(vrTasks[i].log))
    /\ \A k \in 1..Len(vrSent) :
          /\ vrSent[k].after = SubSeq(C10_Order, 1, 4)
          /\ vrTasks[vrSent[k].task].kind = "send"
          /\ vrSent[k].payload.url = vrSent[k].returned
          /\ vrSent[k].payload.fileUrl = vrSent[k].returned
    /\ Len(vrSent) <= Cardinality({i \in 1..Len(vrTasks) :
                                      /\ vrTasks[i].kind = "send"
                                      /\ Len(vrTasks[i].log) >= 5})

\* a send went through its stop and its upload and sent the message
C10_Witness ==
    /\ Len(vrSent) = 1
    /\ vrSent[1].payload.url = "mxc://b"
    /\ vrTasks[vrSent[1].task].pc = "done"

\* C11: a send() that started on a recorder disposes the recording session
\* afterwards whatever happened: once it has ended, by returning or by
\* throwing, it has called disposeRecording.
C11_SendAlwaysDisposes ==
    \A i \in 1..Len(vrTasks) :
        (vrTasks[i].kind = "send" /\ vrTasks[i].log # <<>>
            /\ vrTasks[i].pc \in {"done", "threw"}) =>
                \E k \in 1..Len(vrTasks[i].log) : vrTasks[i].log[k] = "disposeRecording"

\* C12: once the component is unmounted and no handler is in flight any
\* more, the store holds no active recording session.
C12_NoSessionAfterTeardown ==
    (/\ ~vrMounted
     /\ \A i \in 1..Len(vrTasks) : vrTasks[i].pc \in {"done", "threw"}) =>
        vsCurrent = 0

\* C13: a cancel asks the store to dispose the recording before it resets
\* the state: the step that starts it disposes the session and leaves
\* recorder and recordingPhase alone, the reset to recorder = null and
\* recordingPhase = null comes when the disposal has resolved; a cancel calls
\* nothing but disposeRecording, so neither upload nor sendMessage.
C13_CancelDisposesThenResets ==
    /\ [](/\ \A i \in 1..Len(vrTasks) :
                vrTasks[i].kind = "cancel" => vrTasks[i].log = <<"disposeRecording">>
          /\ \A k \in 1..Len(vrSent) : vrTasks[vrSent[k].task].kind # "cancel")
    /\ [][/\ (/\ Len(vrTasks') > Len(vrTasks)
               /\ vrTasks'[Len(vrTasks')].kind = "cancel") =>
                  /\ vrRecorder # 0
                  /\ vrRecorder' = vrRecorder
                  /\ vrPhase' = vrPhase
                  /\ vsCurrent' = 0
                  /\ vsCurrent # 0 => vrRecs'[vsCurrent].destroyed
                  /\ vrSent' = vrSent
          /\ \A i \in 1..Len(vrTasks) :
                 (/\ vrTasks[i].kind = "cancel"
                  /\ vrTasks[i].pc = "awaitDispose"
                  /\ vrTasks'[i].pc = "done"
                  /\ vrMounted) =>
                     /\ vrRecorder' = 0
                     /\ vrPhase' = "none"
                     /\ vrSent' = vrSent]_vars

\* a recording was started and cancelled: its recorder is destroyed, the
\* store holds none and the state is reset
C13_Witness ==
    /\ vrMounted
    /\ \E i \in 1..Len(vrTasks) : vrTasks[i].kind = "cancel" /\ vrTasks[i].pc = "done"
    /\ Len(vrRecs) = 1
    /\ vrRecs[1].started
    /\ vrRecs[1].destroyed
    /\ vsCurrent = 0
    /\ vrRecorder = 0
    /\ vrPhase = "none"
    /\ vrSent = <<>>

\* C14: VoiceRecordingStore.startRecording is never requested while the
\* store holds a session an earlier request created and nobody disposed.
C14_NoSecondSession ==
    [][\A i \in 1..Len(vrTasks) :
          (/\ vrTasks[i].pc = "awaitDevices"
           /\ Len(vrTasks'[i].log) >= 2
           /\ vrTasks'[i].log[2] = "startRecording") => vsCurrent = 0]_vars

\* C15: in every checkEncryption the backup check comes first:
\* getCrossSigningStatus is called only when getSessionBackupPrivateKey of
\* the same check has resolved with a key, and never in a check that found
\* no backup key, which ends with missing_backup.
C15_BackupBeforeSecrets ==
    /\ [](rpLast.id # 0 => (rpLast.sawStatus => rpLast.hasBackup))
    /\ [][\A i \in 1..Len(rpChecks') :
             IF i > Len(rpChecks)
             THEN rpChecks'[i].pc \in {"awaitBackup", "returned"}
             ELSE /\ (rpChecks'[i].pc = "awaitStatus" /\ rpChecks[i].pc # "awaitStatus") =>
                        (rpChecks[i].pc = "awaitBackup" /\ rpBackup)
                  /\ (rpChecks[i].pc = "awaitBackup" /\ ~rpBackup
                        /\ rpChecks'[i].pc \notin {"awaitBackup", "threw"}) =>
                        rpChecks'[i] = [pc |-> "done", set |-> "missing_backup"]
                  /\ rpChecks[i].pc = "awaitStatus" =>
                        rpChecks'[i].pc \in {"awaitStatus", "done", "threw"}]_vars

\* one check ended at the backup check, another went on to the secrets
C15_Witness ==
    \E i, j \in 1..Len(rpChecks) :
        /\ rpChecks[i] = [pc |-> "done", set |-> "missing_backup"]
        /\ rpChecks[j].pc = "done"
        /\ rpChecks[j].set \in {"secrets_not_cached", "good"}

\* C16: from mount until a check has completed the panel state is loading,
\* and in loading none of the three actions is offered: no callback is
\* invoked and accessSecretStorage is not called.
C16_LoadingOffersNothing ==
    /\ []((\A i \in 1..Len(rpChecks) : rpChecks[i].pc # "done") => rpState = "loading")
    /\ [][rpState = "loading" =>
             /\ rpSetUpCalls' = rpSetUpCalls
             /\ rpChangeCalls' = rpChangeCalls
             /\ rpAccess' = rpAccess]_vars

\* mounted, the backup check of the one check not resolved: loading
C16_Witness ==
    /\ rpMounted
    /\ rpChecks = <<[pc |-> "awaitBackup", set |-> "none"]>>
    /\ rpState = "loading"
    /\ rpBackup

\* C17: a checkEncryption that runs while getCrypto() answers nothing
\* returns at once: no external call, no change of the state; a panel
\* whose checks all ran without crypto stays in loading.
C17_NoCryptoNoOp ==
    /\ []((\A i \in 1..Len(rpChecks) : rpChecks[i].pc = "returned") =>
              (rpState = "loading" /\ rpLast = NoObservation))
    /\ [][/\ (Len(rpChecks') > Len(rpChecks) /\ ~rpCrypto) =>
                 /\ rpChecks'[Len(rpChecks')] = [pc |-> "returned", set |-> "none"]
                 /\ rpState' = rpState
          /\ \A i \in 1..Len(rpChecks) :
                 rpChecks[i].pc = "returned" => rpChecks'[i] = rpChecks[i]]_vars

\* the mount check ran without crypto; crypto is there now, with a backup
\* and every secret cached, and the panel is loading still
C17_Witness ==
    /\ rpMounted
    /\ rpChecks = <<[pc |-> "returned", set |-> "none"]>>
    /\ rpCrypto
    /\ rpBackup
    /\ \A s \in Secrets : rpCached[s]
    /\ rpState = "loading"

\* C18: 'Enter recovery key' is clicked in secrets_not_cached and calls
\* accessSecretStorage with checkEncryption, running nothing itself; the
\* function runs when accessSecretStorage invokes it, and the check it
\* starts sets the state from the backup and the cache as they are when it
\* reads them: good when a key exists and all three secrets are cached.
C18_RecheckAfterUnlock ==
    [][/\ rpAccess' > rpAccess =>
             /\ rpState = "secrets_not_cached"
             /\ rpAccess' = rpAccess + 1
             /\ rpChecks' = rpChecks
             /\ rpState' = rpState
       /\ rpAccess' < rpAccess =>
             /\ rpAccess' = rpAccess - 1
             /\ rpState' = rpState
             /\ \/ rpChecks' = rpChecks
                \/ /\ Len(rpChecks') = Len(rpChecks) + 1
                   /\ SubSeq(rpChecks', 1, Len(rpChecks)) = rpChecks
                   /\ rpChecks'[Len(rpChecks')].pc = (IF rpCrypto THEN "awaitBackup" ELSE "returned")
       /\ \A i \in 2..Len(rpChecks) :
             /\ (rpChecks[i].pc = "awaitStatus" /\ rpChecks'[i].pc = "done") =>
                   rpState' = (IF \A s \in Secrets : rpCached[s] THEN "good"
                               ELSE "secrets_not_cached")
             /\ (rpChecks[i].pc = "awaitBackup" /\ rpChecks'[i].pc = "done") =>
                   (rpState' = "missing_backup" /\ ~rpBackup)]_vars

\* the mount check found secrets missing; after the unlock the second check
\* found all three cached and the panel is good
C18_Witness ==
    /\ Len(rpChecks) = 2
    /\ rpChecks[1] = [pc |-> "done", set |-> "secrets_not_cached"]
    /\ rpChecks[2] = [pc |-> "done", set |-> "good"]
    /\ rpLast.id = 2
    /\ rpState = "good"
    /\ rpAccess = 0

\* C19 as stated: the action offered depends on the state alone; a click on
\* 'Set up recovery' happens in missing_backup only and invokes
\* onSetUpRecoveryClick once and nothing else, a click on 'Change recovery
\* key' happens in good only and invokes onChangingRecoveryKeyClick once and
\* nothing else, 'Enter recovery key' is there in secrets_not_cached only;
\* onSetUpRecoveryClick is never invoked when a backup key exists.
C19_ActionByState ==
    [][/\ rpSetUpCalls' # rpSetUpCalls =>
             /\ rpState = "missing_backup"
             /\ rpSetUpCalls' = rpSetUpCalls + 1
             /\ UNCHANGED <<rpState, rpChecks, rpAccess, rpChangeCalls>>
             /\ ~rpBackup
       /\ rpChangeCalls' # rpChangeCalls =>
             /\ rpState = "good"
             /\ rpChangeCalls' = rpChangeCalls + 1
             /\ UNCHANGED <<rpState, rpChecks, rpAccess, rpSetUpCalls>>
       /\ rpAccess' > rpAccess => rpState = "secrets_not_cached"]_vars

\* C19 as amended: as above, but onSetUpRecoveryClick is never invoked
\* unless the check that completed last found no backup key (a key that
\* came to exist since is not seen by the panel), and
\* onChangingRecoveryKeyClick never unless that check found a key and the
\* three secrets cached.
C19_ActionByLastCheck ==
    [][/\ rpSetUpCalls' # rpSetUpCalls =>
             /\ rpState = "missing_backup"
             /\ rpSetUpCalls' = rpSetUpCalls + 1
             /\ UNCHANGED <<rpState, rpChecks, rpAccess, rpChangeCalls>>
             /\ rpLast.id # 0 /\ ~rpLast.hasBackup
       /\ rpChangeCalls' # rpChangeCalls =>
             /\ rpState = "good"
             /\ rpChangeCalls' = rpChangeCalls + 1
             /\ UNCHANGED <<rpState, rpChecks, rpAccess, rpSetUpCalls>>
             /\ rpLast.id # 0 /\ rpLast.hasBackup
             /\ \A s \in Secrets : rpLast.cached[s]
       /\ rpAccess' > rpAccess => rpState = "secrets_not_cached"]_vars

\* one panel was good and had its change button clicked, then was
\* missing_backup and had its set-up button clicked
C19_Witness ==
    /\ rpSetUpCalls = 1
    /\ rpChangeCalls = 1
    /\ rpState = "missing_backup"

C21_BootstrapInsideCacheScope ==
    /\ [](\A i \in 1..Len(crkSubmits) :
             crkSubmits[i].pc # "nocrypto" =>
                 /\ crkSubmits[i].cacheAtCall
                 /\ crkSubmits[i].setupNewSecretStorage
                 /\ crkSubmits[i].setupNewKeyBackup = isSetupFlow
                 /\ crkSubmits[i].key = crkKey
                 /\ crkSubmits[i].key.id = 1)
    /\ [][/\ (crkCacheEnabled /\ ~crkCacheEnabled') =>
                 \E i \in 1..Len(crkSubmits) :
                     /\ crkSubmits[i].pc = "bootstrap"
                     /\ crkSubmits'[i].pc \in {"done", "failed"}
          /\ \A i \in 1..Len(crkSubmits) :
                 (crkSubmits[i].pc = "bootstrap" /\ crkSubmits'[i].pc # "bootstrap") =>
                     /\ crkSubmits'[i].pc \in {"done", "failed"}
                     /\ ~crkCacheEnabled'
          /\ Len(crkSubmits') > Len(crkSubmits) =>
                 (crkSubmits'[Len(crkSubmits')].pc = "bootstrap" => crkCacheEnabled')]_vars

\* the change flow committed twice: one bootstrap failed, one succeeded, and
\* the cache is disabled again
C21_Witness ==
    /\ ~isSetupFlow
    /\ \E i, j \in 1..Len(crkSubmits) :
          /\ crkSubmits[i].pc = "failed"
          /\ crkSubmits[j].pc = "done"
          /\ ~crkSubmits[j].setupNewKeyBackup
          /\ crkSubmits[j].cacheAtCall
    /\ ~crkCacheEnabled

C22_ThrownAtCreation == <<"getDevices", "startRecording", "dialog", "disposeRecording">>

C22_ThrownAtStart == <<"getDevices", "startRecording", "start", "dialog", "disposeRecording">>

\* C22: when startRecording or recorder.start() throws after the device
\* probe succeeded, the click shows an error dialog and requests
\* disposeRecording, and retains nothing: it leaves recorder and
\* recordingPhase as they are (null and unset, unless another click's start
\* completed), and the recorder that failed has no phase listener and no
\* update subscription and is not the store's current recording.
C22_StartFailureRetainsNothing ==
    /\ [](\A r \in 1..Len(vrRecs) : vrRecs[r].listener => vrRecs[r].started)
    /\ [][\A i \in 1..Len(vrTasks) :
             /\ (vrTasks[i].pc = "awaitDevices" /\ vrTasks'[i].pc = "done"
                   /\ vrTasks'[i].probe = "ok") =>
                   /\ vrTasks'[i].log = C22_ThrownAtCreation
                   /\ vrRecorder' = vrRecorder
                   /\ vrPhase' = vrPhase
                   /\ Len(vrRecs') = Len(vrRecs)
                   /\ vsCurrent' = 0
             /\ (vrTasks[i].pc = "awaitStart" /\ vrTasks'[i].log = C22_ThrownAtStart) =>
                   /\ vrTasks'[i].pc = "done"
                   /\ vrRecorder' = vrRecorder
                   /\ vrPhase' = vrPhase
                   /\ vrRecorder' # vrTasks[i].rec
                   /\ ~vrRecs'[vrTasks[i].rec].started
                   /\ ~vrRecs'[vrTasks[i].rec].listener
                   /\ ~vrRecs'[vrTasks[i].rec].subscribed
                   /\ vsCurrent' = 0
                   /\ vrRecorder' # 0 =>
                         \E j \in 1..Len(vrTasks) :
                             j # i /\ vrTasks[j].kind = "click" /\ vrTasks[j].probe = "ok"]_vars

\* the one click found a device, its recorder failed to start: dialog and
\* disposal, the recorder destroyed, nothing in the state
C22_Witness ==
    /\ vrMounted
    /\ Len(vrTasks) = 1
    /\ vrTasks[1].log = C22_ThrownAtStart
    /\ vrTasks[1].pc = "done"
    /\ vrRecorder = 0
    /\ vrPhase = "none"
    /\ vrRecs[1].destroyed
    /\ ~vrRecs[1].listener
    /\ vsCurrent = 0

\* C23: recordingPhase is never EndingSoon; an emission of EndingSoon
\* changes nothing, every other phase a recorder emits is what
\* recordingPhase holds after it.
C23_EndingSoonIgnored ==
    /\ [](vrPhase \in {"none"} \cup (RecordingStates \ {"EndingSoon"}))
    /\ [][\A r \in 1..Len(vrRecs), ev \in RecordingStates :
             VRPhaseEvent(r, ev) =>
                 IF ev = "EndingSoon" THEN UNCHANGED vars
                 ELSE vrMounted => vrPhase' = ev]_vars

\* the recorder emitted Ended and the composer shows it
C23_Witness ==
    /\ vrMounted
    /\ vrRecorder # 0
    /\ vrRecs[vrRecorder].listener
    /\ vrPhase = "Ended"

\* C24: every relHeights array the composer surfaces has exactly
\* RECORDING_PLAYBACK_SAMPLES entries, each within the display range 0..1
\* (values are counted in halves: 0..2), whatever waveform with samples in
\* 0..1 the recorder reported.
C24_RelHeightsInRange ==
    /\ Len(vrRelHeights) = RECORDING_PLAYBACK_SAMPLES
    /\ \A k \in 1..Len(vrRelHeights) : vrRelHeights[k] \in 0..2

\* C25: when the checks of a panel have all ended and the one started last
\* ran to completion, the panel state is the one that check derived: an
\* earlier check never overwrites the result of a later one.
C25_LastStartedWins ==
    (/\ Len(rpChecks) >= 2
     /\ \A i \in 1..Len(rpChecks) : rpChecks[i].pc \in {"done", "returned", "threw"}
     /\ rpChecks[Len(rpChecks)].pc = "done") =>
        rpState = rpChecks[Len(rpChecks)].set

\* C26: once onCancelClick has been invoked, onFinish is not invoked any
\* more in this activation, a bootstrap in flight at the cancel included.
C26_NoFinishAfterCancel ==
    [][crkFinishCalls' > crkFinishCalls => crkCancelCalls = 0]_vars

\* C27: onFinish is invoked at most once per activation and at most one
\* bootstrapSecretStorage call is in flight at any time.
C27_OneCommitAtATime ==
    /\ crkFinishCalls <= 1
    /\ Cardinality({i \in 1..Len(crkSubmits) : crkSubmits[i].pc = "bootstrap"}) <= 1

=============================================================================
